---- MODULE Spec2Model ----
(***************************************************************************)
(* Model of healthcheck/healthcheck.go: the HealthCheck registry           *)
(* (SetBackendsConfiguration / execute), the per-backend monitor goroutine *)
(* and the reconciliation pass checkBackend.                               *)
(*                                                                         *)
(* Four specifications share the same state and the same actions:          *)
(*   Spec      the registry: concurrent SetBackendsConfiguration calls,    *)
(*             generations, cancellation, tickers, the wait group;         *)
(*   PassSpec  one backend's monitor running passes one after the other,   *)
(*             over every starting live list, with probes and adapter      *)
(*             calls that may fail;                                        *)
(*   OnceSpec  concurrent callers of GetHealthCheck;                       *)
(*   FairSpec  the registry called by one goroutine, with fair scheduling  *)
(*             of the monitors.                                            *)
(***************************************************************************)
EXTENDS Integers, Sequences, FiniteSets

\* ---------------------------------------------------------------- bounds

\* Backend objects (*BackendHealthCheck) a configuration can name.
NumBackends == 1
\* Goroutines that may call SetBackendsConfiguration.
NumCallers == 2
\* SetBackendsConfiguration calls in one behaviour (registry specification).
MaxCalls == 2
\* Passes one monitor makes (the initial one included).
MaxPasses == 2
\* Passes the single monitor of PassSpec makes.
MaxSeqPasses == 3
\* Server URLs of the backend of PassSpec.
MaxURLs == 2
\* UpsertServer/RemoveServer calls that return an error in one behaviour.
MaxFails == 2
\* Weight the servers are configured with before any health check.
ConfigWeight == 2

\* Goroutines that may call GetHealthCheck.
NumGetters == 3
\* GetHealthCheck calls of one goroutine.
MaxGets == 2

BackendIds == 1..NumBackends
Callers == 1..NumCallers
Gens == 1..MaxCalls
URLs == 1..MaxURLs
Getters == 1..NumGetters
\* Probe intervals a configuration can carry: negative, zero and positive.
Intervals == {-1, 0, 1}

VARIABLES
  Backends,      \* hc.Backends: the stored set (the keys of the map)
  cancel,        \* hc.cancel: 0 for nil, else the generation whose context it cancels
  wg,            \* hc.wg: the wait group's counter
  ctxDone,       \* generations whose own cancel function has been called
  parentDone,    \* whether parentCtx has been cancelled
  nextGen,       \* contexts derived so far (context.WithCancel calls)
  calls,         \* SetBackendsConfiguration calls started so far
  caller,        \* per calling goroutine: position in SetBackendsConfiguration
  mon,           \* per (generation, backend): the monitor goroutine of execute
  LB,            \* per backend: the load balancer's servers, in order
  disabledURLs,  \* per backend: currentBackend.disabledURLs
  Interval,      \* per backend: Options.Interval
  failBudget,    \* adapter errors the environment may still return
  failedOps,     \* adapter operations that have returned an error (history)
  overlapped,    \* whether two SetBackendsConfiguration calls have overlapped (history)
  known,         \* per backend: the URLs configured at the start (history)
  singleton,     \* the package variable singleton: 0 for nil, else the instance
  once,          \* the package variable once: "fresh", "running" or "done"
  built,         \* HealthCheck values newHealthCheck has constructed so far
  getter         \* per calling goroutine: position in GetHealthCheck

vars == <<Backends, cancel, wg, ctxDone, parentDone, nextGen, calls, caller,
          mon, LB, disabledURLs, Interval, failBudget, failedOps, overlapped, known,
          singleton, once, built, getter>>

\* The package variables of lines 16-17 and the callers of GetHealthCheck.
onceVars == <<singleton, once, built, getter>>

registryVars == <<Backends, cancel, ctxDone, parentDone, nextGen, calls, caller, overlapped,
                  onceVars>>

Mons == Gens \X BackendIds

\* ------------------------------------------------------------- helpers

Range(s) == {s[i] : i \in 1..Len(s)}

\* LoadBalancer.Servers(): the URLs of the live list, in order.
Servers(b) == [i \in 1..Len(LB[b]) |-> LB[b][i].url]

LiveSet(b) == Range(Servers(b))
DisabledSet(b) == Range(disabledURLs[b])

RECURSIVE WithoutURL(_, _)
WithoutURL(s, u) ==
  IF s = <<>> THEN <<>>
  ELSE IF Head(s).url = u THEN WithoutURL(Tail(s), u)
       ELSE <<Head(s)>> \o WithoutURL(Tail(s), u)

\* LoadBalancer.UpsertServer(u, Weight(w)) that returns nil: an absent server
\* is appended, a present one gets the weight; never a second entry.
UpsertServer(s, u, w) ==
  IF \E i \in 1..Len(s) : s[i].url = u
  THEN [i \in 1..Len(s) |-> IF s[i].url = u THEN [url |-> u, weight |-> w] ELSE s[i]]
  ELSE Append(s, [url |-> u, weight |-> w])

\* LoadBalancer.RemoveServer(u) that removes: the server is absent afterwards.
RemoveServer(s, u) == WithoutURL(s, u)

\* The results an adapter call can have: nil, or an error while the
\* environment still has errors to return.
AdapterResults == IF failBudget > 0 THEN {TRUE, FALSE} ELSE {TRUE}

\* checkHealth: one GET with a timeout; TRUE iff no error and status 200.
\* The network decides the outcome of every call anew.
checkHealth == {TRUE, FALSE}

\* ctx.Done() of generation g: its own cancel was called, or its parent's.
Done(g) == g \in ctxDone \/ parentDone

NoMonitor ==
  [pc |-> "none", enabledURLs |-> <<>>, rangeURLs |-> <<>>, newDisabledURLs |-> <<>>,
   i |-> 0, ticker |-> FALSE, tick |-> FALSE, passes |-> 0, obs |-> FALSE,
   log |-> <<>>, failed |-> FALSE, prevFailed |-> FALSE, maxPasses |-> 0,
   prevLog |-> <<>>, startLB |-> <<>>, startDisabled |-> <<>>,
   loaded |-> <<>>, seen |-> <<>>, traced |-> FALSE]

\* A goroutine handed to safe.Go that has not run yet.
Spawned(n) == [NoMonitor EXCEPT !.pc = "spawned", !.maxPasses = n]

InPass(r) == r.pc \in {"range", "loop1", "assign", "loop2", "append", "store"}

\* Where checkBackend returns to: line 95 after the initial check, the select
\* of line 98 after a refresh.
Return(r) == IF r.ticker THEN "select" ELSE "newticker"

Event(op, u, ok) == [op |-> op, url |-> u, ok |-> ok]

\* The log of a monitor after the events es: only a traced monitor keeps a
\* log (history).
Logged(r, es) == IF r.traced THEN r.log \o es ELSE r.log

\* The record r of a monitor after a step of checkBackend: a local that
\* is not read again is gone (the elements the loop of line 114 has
\* handled, the range of that loop after it, newDisabledURLs after line
\* 123, every local when the call has returned or panicked); a traced
\* monitor keeps them as the record of its last pass (history).
Returned(r) ==
  IF r.traced THEN r
  ELSE [r EXCEPT
          !.rangeURLs = IF r.pc = "loop1" THEN SubSeq(@, r.i, Len(@)) ELSE <<>>,
          !.i = IF r.pc = "loop1" THEN 1
                ELSE IF r.pc \in {"loop2", "append", "store"} THEN @ ELSE 0,
          !.newDisabledURLs = IF r.pc \in {"loop1", "assign"} THEN @ ELSE <<>>,
          !.enabledURLs = IF r.pc \in {"newticker", "select", "panicked"}
                          THEN <<>> ELSE @]


\* ------------------------------------------------- the monitor goroutine

\* The backend a monitor checks, and its generation's context.
BackendOf(m) == m[2]
GenOf(m) == m[1]

\* ------------------------------------- the unsynchronised disabledURLs

\* currentBackend.disabledURLs is a slice header of three words (array
\* pointer, length, capacity) that the monitors of one backend object load
\* (lines 114, 129) and store (lines 123, 129) without a lock. A monitor
\* stands before such an access at:
LoadPcs == {"range", "append"}
StorePcs == {"assign", "store"}

\* The monitors of other generations that check the same backend object.
Others(m) == {n \in Mons : n # m /\ BackendOf(n) = BackendOf(m)}

\* The words a read of an element can find besides a pointer to a URL of
\* the configuration: an undefined word (behind the end of an array, or a
\* pointer to something else), and the nil pointer (also for a read through
\* a nil array pointer, which panics like the use of a nil element).
NoURL == 0
NilURL == -1

\* A header whose words were not written by one store, and the header of
\* line 129 whose new element is not written yet: Torn(ws) is such a header
\* through which a read finds the words ws. Its capacity word is any.
TornWord == -2
Torn(ws) == <<TornWord>> \o ws
IsTorn(h) == h # <<>> /\ h[1] = TornWord

\* The words a range over the header h, or a copy of it, reads.
Elems(h) == IF IsTorn(h) THEN Tail(h) ELSE h

\* The words read through the array pointer of h with the length n: the
\* elements of h, cut, or followed by the words behind the array; through
\* the nil pointer of an empty slice no word is read.
Pad(h, n) ==
  [k \in 1..n |-> IF h = <<>> THEN NilURL
                  ELSE IF k <= Len(Elems(h)) THEN Elems(h)[k] ELSE NoURL]

\* The capacity of a slice that n appends have built from nil
\* (runtime.growslice doubles it).
Cap(n) == IF n <= 2 THEN n ELSE IF n <= 4 THEN 4 ELSE 8

\* append(h, u) finds len+1 <= cap: it stores the length word alone and
\* writes the element in place.
InPlace(h) == ~IsTorn(h) /\ Len(h) + 1 <= Cap(Len(h))

\* The headers two overlapping accesses to the headers a and b can show:
\* the one, the other, or a mix of their words. Two slices of one length
\* that appends have built have one capacity and differ in the array only.
Mixes(a, b) ==
  {a, b} \cup
  (IF ~IsTorn(a) /\ ~IsTorn(b) /\ Len(a) = Len(b) THEN {}
   ELSE {Torn(Pad(p, Len(Elems(l)))) : p \in {a, b}, l \in {a, b}})

\* The header a monitor standing before a store is about to leave.
PendingValue(r) ==
  IF r.pc = "assign" THEN r.newDisabledURLs
  ELSE IF IsTorn(r.loaded) THEN Torn(Append(Elems(r.loaded), r.enabledURLs[r.i]))
  ELSE Append(r.loaded, r.enabledURLs[r.i])

\* The header of line 129 before its new element is written: the slot
\* holds nil.
Unwritten(v) ==
  IF Elems(v) = <<>> THEN v
  ELSE Torn(Append(SubSeq(Elems(v), 1, Len(Elems(v)) - 1), NilURL))

\* The headers a load can find while the header cur is stored and a store
\* of v overlaps it; elem says that the store is the one of line 129, whose
\* element is written after the header.
Overlaps(cur, v, elem) ==
  Mixes(cur, v) \cup (IF elem THEN {Unwritten(v)} ELSE {})

\* What a load by m can return: the stored header, or another one when a
\* store of another monitor overlaps the load. The load is taken at the
\* point where that store is pending: the monitor of the store has read
\* nothing of m since, and m writes nothing another goroutine reads before
\* its load has ended, so a load that ends later finds the same.
Loads(m) ==
  LET cur == disabledURLs[BackendOf(m)] IN
    {cur}
    \cup UNION {Overlaps(cur, PendingValue(mon[n]), mon[n].pc = "store") :
                  n \in {o \in Others(m) : mon[o].pc \in StorePcs}}

\* What a store of v by m can leave: v, or another header when a store of
\* another monitor happened while m stood before its own.
Stores(m, v) ==
  IF mon[m].seen = <<>> THEN {v} ELSE Mixes(v, disabledURLs[BackendOf(m)])

\* The monitors after a store by m, whose record becomes r: every other
\* monitor of the backend that stands before a store has seen a store.
AfterStore(m, r) ==
  [n \in Mons |->
     IF n = m THEN r
     ELSE IF n \in Others(m) /\ mon[n].pc \in StorePcs
          THEN [mon[n] EXCEPT !.seen = <<TRUE>>]
          ELSE mon[n]]

\* The URL values the heap holds: a stale pointer points to one of them.
HeapURLs == UNION {known[b] : b \in BackendIds}

\* What the probe of line 115 can find in the word w: the word itself, or
\* for an undefined word a stale pointer to a URL or nil.
Pointee(w) == IF w = NoURL THEN HeapURLs \cup {NoURL, NilURL} ELSE {w}

\* The goroutine of m after a panic: it unwinds, the deferred ticker.Stop
\* and hc.wg.Done run, safe.Go recovers.
Panicked(m) ==
  Returned([mon[m] EXCEPT !.pc = "panicked", !.ticker = FALSE, !.tick = FALSE,
                          !.seen = <<>>, !.loaded = <<>>])

\* A monitor of execute that omits the initial check (the fault C8 has to exclude).
GoStartNoInitialCheck(m) ==
  /\ mon[m].pc = "spawned"
  /\ wg' = wg + 1
  /\ mon' = [mon EXCEPT ![m].pc = "newticker"]
  /\ UNCHANGED <<registryVars, LB, disabledURLs, Interval, failBudget, failedOps, known>>

\* Lines 90-94: the goroutine starts, hc.wg.Add(1), and calls checkBackend
\* for the initial check before any ticker exists.
GoStart(m) ==
  /\ mon[m].pc = "spawned"
  /\ wg' = wg + 1
  /\ mon' = [mon EXCEPT ![m].pc = "check"]
  /\ UNCHANGED <<registryVars, LB, disabledURLs, Interval, failBudget, failedOps, known>>

\* Line 112: enabledURLs := currentBackend.LB.Servers(); line 113. The
\* history of the monitor keeps the log of the pass before and the two
\* lists as this pass finds them.
CallServers(m) ==
  /\ mon[m].pc = "check"
  /\ mon' = [mon EXCEPT ![m].pc = "range",
                        ![m].enabledURLs = Servers(BackendOf(m)),
                        ![m].rangeURLs = <<>>,
                        ![m].newDisabledURLs = <<>>,
                        ![m].i = 0,
                        ![m].log = <<>>,
                        ![m].prevLog = mon[m].log,
                        ![m].startLB = IF mon[m].traced THEN LB[BackendOf(m)] ELSE <<>>,
                        ![m].startDisabled = IF mon[m].traced
                                             THEN disabledURLs[BackendOf(m)] ELSE <<>>,
                        ![m].prevFailed = mon[m].failed,
                        ![m].failed = FALSE]
  /\ UNCHANGED <<registryVars, wg, LB, disabledURLs, Interval, failBudget, failedOps, known>>

\* Line 114: the range expression currentBackend.disabledURLs is loaded
\* once; the loop reads the elements through the loaded header.
RangeDisabled(m) ==
  /\ mon[m].pc = "range"
  /\ \E h \in Loads(m) :
       mon' = [mon EXCEPT ![m] = Returned([mon[m] EXCEPT
                          !.rangeURLs = Elems(h),
                          !.i = 1,
                          !.seen = <<>>,
                          !.pc = IF Elems(h) = <<>> THEN "assign" ELSE "loop1"])]
  /\ UNCHANGED <<registryVars, wg, LB, disabledURLs, Interval, failBudget, failedOps, known>>

\* After one iteration of the loop of line 114.
Next1(r) == IF r.i < Len(r.rangeURLs) THEN "loop1" ELSE "assign"

\* An Enable that takes the URL off the disabled list without calling
\* UpsertServer (the fault C12 has to exclude).
EnableWithoutUpsert(m) ==
  /\ mon[m].pc = "loop1"
  /\ LET r == mon[m] IN
     \E u \in Pointee(r.rangeURLs[r.i]) \cap URLs :
     mon' = [mon EXCEPT ![m] = Returned([r EXCEPT !.pc = Next1(r),
                           !.i = r.i + 1,
                           !.log = Logged(r, <<Event("probe1", u, TRUE),
                                              Event("upsert", u, TRUE)>>)])]
  /\ UNCHANGED <<registryVars, wg, LB, disabledURLs, Interval, failBudget, failedOps, known>>

\* Lines 115-117: checkHealth of a disabled URL is true, so
\* LB.UpsertServer(url, Weight(1)) is called; its error is not looked at and
\* the URL is not kept in newDisabledURLs. An undefined word that is a stale
\* pointer to a URL is probed and upserted like one.
Enable(m) ==
  /\ mon[m].pc = "loop1"
  /\ TRUE \in checkHealth
  /\ LET r == mon[m]
         b == BackendOf(m) IN
     \E u \in Pointee(r.rangeURLs[r.i]) \cap URLs, ok \in AdapterResults :
       /\ LB' = [LB EXCEPT ![b] = IF ok THEN UpsertServer(LB[b], u, 1) ELSE LB[b]]
       /\ failBudget' = IF ok THEN failBudget ELSE failBudget - 1
       /\ failedOps' = IF ok THEN failedOps ELSE failedOps \cup {"upsert"}
       /\ mon' = [mon EXCEPT ![m] = Returned([r EXCEPT !.pc = Next1(r),
                             !.i = r.i + 1,
                             !.failed = r.failed \/ ~ok,
                             !.log = Logged(r, <<Event("probe1", u, TRUE),
                                                Event("upsert", u, ok)>>)])]
  /\ UNCHANGED <<registryVars, wg, disabledURLs, Interval, known>>

\* Lines 118-120: checkHealth of a disabled URL is false, so the URL is
\* appended to newDisabledURLs; so is an undefined word that is a pointer to
\* something, which the loop goes on with. For one that is nil checkHealth
\* does not return: url.String() at line 138 dereferences it, the goroutine
\* panics and unwinds.
StillFailing(m) ==
  /\ mon[m].pc = "loop1"
  /\ FALSE \in checkHealth
  /\ LET r == mon[m] IN
     \E u \in Pointee(r.rangeURLs[r.i]) :
       IF u # NilURL
       THEN /\ mon' = [mon EXCEPT ![m] = Returned([r EXCEPT !.pc = Next1(r),
                                  !.i = r.i + 1,
                                  !.newDisabledURLs = Append(r.newDisabledURLs, u),
                                  !.log = Logged(r, <<Event("probe1", u, FALSE)>>)])]
            /\ wg' = wg
       ELSE /\ mon' = [mon EXCEPT ![m] = Panicked(m)]
            /\ wg' = wg - 1
  /\ UNCHANGED <<registryVars, LB, disabledURLs, Interval, failBudget, failedOps, known>>

\* Line 123: currentBackend.disabledURLs = newDisabledURLs, a store; then
\* the range of line 125 over the enabledURLs read at line 112.
AssignDisabled(m) ==
  /\ mon[m].pc = "assign"
  /\ LET r == mon[m] IN
     /\ \E v \in Stores(m, r.newDisabledURLs) :
          disabledURLs' = [disabledURLs EXCEPT ![BackendOf(m)] = v]
     /\ mon' = AfterStore(m,
                 Returned([r EXCEPT !.i = 1,
                           !.seen = <<>>,
                           !.pc = IF r.enabledURLs = <<>> THEN Return(r) ELSE "loop2",
                           !.passes = IF r.enabledURLs = <<>> THEN r.passes + 1
                                      ELSE r.passes]))
  /\ UNCHANGED <<registryVars, wg, LB, Interval, failBudget, failedOps, known>>

\* After one iteration of the loop of line 125.
Next2(r) == IF r.i < Len(r.enabledURLs) THEN "loop2" ELSE Return(r)
Passes2(r) == IF r.i < Len(r.enabledURLs) THEN r.passes ELSE r.passes + 1

\* Line 126 with checkHealth true: the live server is left alone.
StillHealthy(m) ==
  /\ mon[m].pc = "loop2"
  /\ TRUE \in checkHealth
  /\ LET r == mon[m]
         u == r.enabledURLs[r.i] IN
     mon' = [mon EXCEPT ![m] = Returned([r EXCEPT !.pc = Next2(r),
                        !.passes = Passes2(r),
                        !.i = r.i + 1,
                        !.log = Logged(r, <<Event("probe2", u, TRUE)>>)])]
  /\ UNCHANGED <<registryVars, wg, LB, disabledURLs, Interval, failBudget, failedOps, known>>

\* Lines 126-128: checkHealth of a live URL is false, so
\* LB.RemoveServer(url) is called; its error is not looked at.
Disable(m) ==
  /\ mon[m].pc = "loop2"
  /\ FALSE \in checkHealth
  /\ LET r == mon[m]
         u == r.enabledURLs[r.i]
         b == BackendOf(m) IN
     \E ok \in AdapterResults :
       /\ LB' = [LB EXCEPT ![b] = IF ok THEN RemoveServer(LB[b], u) ELSE LB[b]]
       /\ failBudget' = IF ok THEN failBudget ELSE failBudget - 1
       /\ failedOps' = IF ok THEN failedOps ELSE failedOps \cup {"remove"}
       /\ mon' = [mon EXCEPT ![m].pc = "append",
                             ![m].failed = r.failed \/ ~ok,
                             ![m].log = Logged(r, <<Event("probe2", u, FALSE),
                                                   Event("remove", u, ok)>>)]
  /\ UNCHANGED <<registryVars, wg, disabledURLs, Interval, known>>

\* Line 129, right-hand side: currentBackend.disabledURLs is loaded for
\* append(currentBackend.disabledURLs, url).
LoadDisabled(m) ==
  /\ mon[m].pc = "append"
  /\ \E v \in Loads(m) :
       mon' = [mon EXCEPT ![m].pc = "store", ![m].loaded = v, ![m].seen = <<>>]
  /\ UNCHANGED <<registryVars, wg, LB, disabledURLs, Interval, failBudget, failedOps, known>>

\* Line 129, append and assignment. With len+1 > cap append copies the
\* loaded slice and url to a new array and the three words of its header are
\* stored; else the length word alone is stored and url is written in place,
\* which shows in the stored slice when that still is the loaded one. With
\* a torn header either happens, as its capacity word says: the header of
\* the copy is stored, or the length word alone is stored and url is
\* written through the loaded array pointer, which the stored header need
\* not hold any more; the copy, or the write in place after the length word
\* is stored, can go through a nil array pointer and panic, and the
\* goroutine unwinds.
AppendDisabled(m) ==
  /\ mon[m].pc = "store"
  /\ LET r == mon[m]
         u == r.enabledURLs[r.i]
         b == BackendOf(m)
         h == r.loaded
         cur == disabledURLs[b]
         length == Torn(Pad(cur, Len(Elems(h)) + 1))
         done == Returned([r EXCEPT !.pc = Next2(r),
                           !.passes = Passes2(r),
                           !.seen = <<>>,
                           !.loaded = <<>>,
                           !.i = r.i + 1]) IN
     IF ~IsTorn(h)
     THEN /\ \E v \in (IF ~InPlace(h) THEN Stores(m, Append(h, u))
                       ELSE IF r.seen = <<>> THEN {Append(h, u)}
                       ELSE {Append(h, u), length}) :
               disabledURLs' = [disabledURLs EXCEPT ![b] = v]
          /\ mon' = AfterStore(m, done)
          /\ wg' = wg
     ELSE \E o \in {"stored", "written", "length", "copy"} :
            /\ disabledURLs' =
                 IF o = "copy" THEN disabledURLs
                 ELSE IF o \in {"written", "length"}
                      THEN [disabledURLs EXCEPT ![b] = length]
                 ELSE [disabledURLs EXCEPT ![b] = Torn(Append(Elems(h), u))]
            /\ mon' = IF o \in {"stored", "written"} THEN AfterStore(m, done)
                      ELSE IF o = "length" THEN AfterStore(m, Panicked(m))
                      ELSE [mon EXCEPT ![m] = Panicked(m)]
            /\ wg' = IF o \in {"stored", "written"} THEN wg ELSE wg - 1
  /\ UNCHANGED <<registryVars, LB, Interval, failBudget, failedOps, known>>

\* checkBackend (lines 111-132), one step at a time.
checkBackend(m) ==
  \/ CallServers(m)
  \/ RangeDisabled(m)
  \/ Enable(m)
  \/ StillFailing(m)
  \/ AssignDisabled(m)
  \/ StillHealthy(m)
  \/ Disable(m)
  \/ LoadDisabled(m)
  \/ AppendDisabled(m)

\* Line 95: time.NewTicker(currentBackend.Interval) panics for a non-positive
\* interval; the goroutine unwinds (the deferred hc.wg.Done runs) and ends.
NewTicker(m) ==
  /\ mon[m].pc = "newticker"
  /\ IF Interval[BackendOf(m)] > 0
     THEN /\ mon' = [mon EXCEPT ![m].pc = "select", ![m].ticker = TRUE]
          /\ wg' = wg
     ELSE /\ mon' = [mon EXCEPT ![m].pc = "panicked"]
          /\ wg' = wg - 1
  /\ UNCHANGED <<registryVars, LB, disabledURLs, Interval, failBudget, failedOps, known>>

\* The ticker's channel holds one tick; the runtime sends one when the
\* interval has passed and drops it when the channel is full. A tick sent
\* during a pass waits in the channel until the select, so it is modelled as
\* arriving there.
Tick(m) ==
  /\ mon[m].ticker
  /\ ~mon[m].tick
  /\ mon[m].pc = "select"
  /\ mon[m].passes < mon[m].maxPasses
  /\ mon' = [mon EXCEPT ![m].tick = TRUE]
  /\ UNCHANGED <<registryVars, wg, LB, disabledURLs, Interval, failBudget, failedOps, known>>

\* A ctx.Done branch that leaves the select but not the loop (the fault C5 has to exclude).
SelectDoneNoReturn(m) ==
  /\ mon[m].pc = "select"
  /\ Done(GenOf(m))
  /\ mon' = [mon EXCEPT ![m].obs = TRUE]
  /\ UNCHANGED <<registryVars, wg, LB, disabledURLs, Interval, failBudget, failedOps, known>>

\* Lines 99-101: case <-ctx.Done(): return. The deferred ticker.Stop and
\* hc.wg.Done run.
SelectDone(m) ==
  /\ mon[m].pc = "select"
  /\ Done(GenOf(m))
  /\ mon' = [mon EXCEPT ![m].pc = "stopped", ![m].obs = TRUE,
                        ![m].ticker = FALSE, ![m].tick = FALSE]
  /\ wg' = wg - 1
  /\ UNCHANGED <<registryVars, LB, disabledURLs, Interval, failBudget, failedOps, known>>

\* Lines 102-104: case <-ticker.C: checkBackend(currentBackend). The select
\* takes any ready case; nothing prefers ctx.Done.
SelectTick(m) ==
  /\ mon[m].pc = "select"
  /\ mon[m].tick
  /\ mon[m].passes < mon[m].maxPasses
  /\ mon' = [mon EXCEPT ![m].pc = "check", ![m].tick = FALSE]
  /\ UNCHANGED <<registryVars, wg, LB, disabledURLs, Interval, failBudget, failedOps, known>>

\* The goroutine of execute (lines 90-107).
Monitor(m) ==
  \/ GoStart(m)
  \/ checkBackend(m)
  \/ NewTicker(m)
  \/ Tick(m)
  \/ SelectDone(m)
  \/ SelectTick(m)


\* ------------------------------------------------------ GetHealthCheck

\* A goroutine outside GetHealthCheck: got is what its last call returned,
\* n the calls it has made, raced whether another goroutine was inside
\* GetHealthCheck when its last call began (history).
NoGetter == [pc |-> "idle", got |-> 0, n |-> 0, raced |-> FALSE]

\* A goroutine calls GetHealthCheck() (line 20).
GetCall(g) ==
  /\ getter[g].pc = "idle"
  /\ getter[g].n < MaxGets
  /\ getter' = [getter EXCEPT ![g].pc = "do",
                              ![g].raced = \E h \in Getters : getter[h].pc # "idle"]
  /\ UNCHANGED <<Backends, cancel, wg, ctxDone, parentDone, nextGen, calls, caller, mon, LB,
                 disabledURLs, Interval, failBudget, failedOps, overlapped, known,
                 singleton, once, built>>

\* A lazy initialisation that tests singleton instead of using once (the
\* fault C13 has to exclude).
OnceDoUnguarded(g) ==
  /\ getter[g].pc = "do"
  /\ getter' = [getter EXCEPT ![g].pc = IF singleton = 0 THEN "new" ELSE "return"]
  /\ UNCHANGED <<Backends, cancel, wg, ctxDone, parentDone, nextGen, calls, caller, mon, LB,
                 disabledURLs, Interval, failBudget, failedOps, overlapped, known,
                 singleton, once, built>>

\* Line 21: once.Do(f). The first call runs f; a call made while f runs
\* blocks until f has returned; a call made after that returns at once.
OnceDo(g) ==
  /\ getter[g].pc = "do"
  /\ once # "running"
  /\ once' = IF once = "fresh" THEN "running" ELSE once
  /\ getter' = [getter EXCEPT ![g].pc = IF once = "fresh" THEN "new" ELSE "return"]
  /\ UNCHANGED <<Backends, cancel, wg, ctxDone, parentDone, nextGen, calls, caller, mon, LB,
                 disabledURLs, Interval, failBudget, failedOps, overlapped, known,
                 singleton, built>>

\* Line 22, right-hand side: newHealthCheck() (lines 60-65) constructs a
\* HealthCheck, map and wait group included, and returns its address.
newHealthCheck(g) ==
  /\ getter[g].pc = "new"
  /\ built' = built + 1
  /\ getter' = [getter EXCEPT ![g].pc = "assign", ![g].got = built + 1]
  /\ UNCHANGED <<Backends, cancel, wg, ctxDone, parentDone, nextGen, calls, caller, mon, LB,
                 disabledURLs, Interval, failBudget, failedOps, overlapped, known,
                 singleton, once>>

\* Line 22, assignment: singleton = the new value; f returns and once.Do
\* marks the Once done.
AssignSingleton(g) ==
  /\ getter[g].pc = "assign"
  /\ singleton' = getter[g].got
  /\ once' = IF once = "running" THEN "done" ELSE once
  /\ getter' = [getter EXCEPT ![g].pc = "return"]
  /\ UNCHANGED <<Backends, cancel, wg, ctxDone, parentDone, nextGen, calls, caller, mon, LB,
                 disabledURLs, Interval, failBudget, failedOps, overlapped, known, built>>

\* Line 24: return singleton.
GetReturn(g) ==
  /\ getter[g].pc = "return"
  /\ getter' = [getter EXCEPT ![g].pc = "idle", ![g].got = singleton,
                              ![g].n = getter[g].n + 1]
  /\ UNCHANGED <<Backends, cancel, wg, ctxDone, parentDone, nextGen, calls, caller, mon, LB,
                 disabledURLs, Interval, failBudget, failedOps, overlapped, known,
                 singleton, once, built>>

\* GetHealthCheck (lines 20-25).
GetHealthCheck(g) ==
  \/ GetCall(g)
  \/ OnceDo(g)
  \/ newHealthCheck(g)
  \/ AssignSingleton(g)
  \/ GetReturn(g)

\* -------------------------------------------- SetBackendsConfiguration

Idle == [pc |-> "idle", backends |-> {}, ctx |-> 0, overlap |-> FALSE]

Active(c) == caller[c].pc # "idle"

\* A goroutine calls hc.SetBackendsConfiguration(parentCtx, backends). No
\* lock is taken: another goroutine may be inside the function already.
Call(c, S) ==
  /\ ~Active(c)
  /\ calls < MaxCalls
  /\ calls' = calls + 1
  /\ LET busy == \E d \in Callers : Active(d) IN
     /\ overlapped' = (overlapped \/ busy)
     /\ caller' = [d \in Callers |->
                     IF d = c
                     THEN [pc |-> "l77", backends |-> S, ctx |-> 0, overlap |-> busy]
                     ELSE IF Active(d) THEN [caller[d] EXCEPT !.overlap = TRUE]
                     ELSE caller[d]]
  /\ UNCHANGED <<onceVars, Backends, cancel, wg, ctxDone, parentDone, nextGen, mon, LB,
                 disabledURLs, Interval, failBudget, failedOps, known>>

\* Line 77: hc.Backends = backends.
SetBackends(c) ==
  /\ caller[c].pc = "l77"
  /\ Backends' = caller[c].backends
  /\ caller' = [caller EXCEPT ![c].pc = "l78"]
  /\ UNCHANGED <<onceVars, cancel, wg, ctxDone, parentDone, nextGen, calls, overlapped, mon, LB,
                 disabledURLs, Interval, failBudget, failedOps, known>>

\* Lines 78-80: if hc.cancel != nil { hc.cancel() }.
CancelPrevious(c) ==
  /\ caller[c].pc = "l78"
  /\ ctxDone' = IF cancel # 0 THEN ctxDone \cup {cancel} ELSE ctxDone
  /\ caller' = [caller EXCEPT ![c].pc = "l81"]
  /\ UNCHANGED <<onceVars, Backends, cancel, wg, parentDone, nextGen, calls, overlapped, mon, LB,
                 disabledURLs, Interval, failBudget, failedOps, known>>

\* Lines 81-82: ctx, cancel := context.WithCancel(parentCtx); hc.cancel = cancel.
WithCancel(c) ==
  /\ caller[c].pc = "l81"
  /\ nextGen' = nextGen + 1
  /\ cancel' = nextGen + 1
  /\ caller' = [caller EXCEPT ![c].pc = "l87", ![c].ctx = nextGen + 1]
  /\ UNCHANGED <<onceVars, Backends, wg, ctxDone, parentDone, calls, overlapped, mon, LB,
                 disabledURLs, Interval, failBudget, failedOps, known>>

\* Lines 83, 86-109: hc.execute(ctx) ranges over hc.Backends as it is now
\* and hands one goroutine per entry to safe.Go; then the call returns.
execute(c) ==
  /\ caller[c].pc = "l87"
  /\ mon' = [m \in Mons |->
               IF GenOf(m) = caller[c].ctx /\ BackendOf(m) \in Backends
               THEN Spawned(MaxPasses) ELSE mon[m]]
  /\ caller' = [caller EXCEPT ![c].pc = "idle"]
  /\ UNCHANGED <<onceVars, Backends, cancel, wg, ctxDone, parentDone, nextGen, calls, overlapped, LB,
                 disabledURLs, Interval, failBudget, failedOps, known>>

\* SetBackendsConfiguration (lines 76-84), one shared access at a time.
SetBackendsConfiguration(c) ==
  \/ \E S \in SUBSET BackendIds : Call(c, S)
  \/ SetBackends(c)
  \/ CancelPrevious(c)
  \/ WithCancel(c)
  \/ execute(c)

\* The owner of parentCtx cancels it.
CancelParent ==
  /\ ~parentDone
  /\ parentDone' = TRUE
  /\ UNCHANGED <<onceVars, Backends, cancel, wg, ctxDone, nextGen, calls, overlapped, caller, mon, LB,
                 disabledURLs, Interval, failBudget, failedOps, known>>

\* ------------------------------------------------------ specifications

\* The live list a backend is configured with: its servers in order, each
\* with the configured weight.
Configured(n) == [i \in 1..n |-> [url |-> i, weight |-> ConfigWeight]]

\* newHealthCheck (lines 60-65) and NewBackendHealthCheck (lines 67-73):
\* an empty registry, no cancel function, backends with no disabled URL.
\* Backend 1 has one server and backend 2 none; the adapter returns no error.
Init ==
  /\ Backends = {}
  /\ cancel = 0
  /\ wg = 0
  /\ ctxDone = {}
  /\ parentDone = FALSE
  /\ nextGen = 0
  /\ calls = 0
  /\ caller = [c \in Callers |-> Idle]
  /\ mon = [m \in Mons |-> NoMonitor]
  /\ LB = [b \in BackendIds |-> IF b = 1 THEN Configured(1) ELSE <<>>]
  /\ disabledURLs = [b \in BackendIds |-> <<>>]
  /\ Interval \in [BackendIds -> Intervals]
  /\ failBudget = 0
  /\ failedOps = {}
  /\ overlapped = FALSE
  /\ known = [b \in BackendIds |-> LiveSet(b)]
  /\ singleton = 0
  /\ once = "fresh"
  /\ built = 0
  /\ getter = [g \in Getters |-> NoGetter]

Next ==
  \/ \E c \in Callers : SetBackendsConfiguration(c)
  \/ \E m \in Mons : Monitor(m)
  \/ CancelParent

Spec == Init /\ [][Next]_vars

\* The monitor PassSpec follows: generation 1, backend 1.
M1 == <<1, 1>>

\* The state after SetBackendsConfiguration(ctx, {backend 1}) has returned,
\* for every number of configured servers and a positive interval.
PassInit ==
  /\ Backends = {1}
  /\ cancel = 1
  /\ wg = 0
  /\ ctxDone = {}
  /\ parentDone = FALSE
  /\ nextGen = 1
  /\ calls = MaxCalls
  /\ caller = [c \in Callers |-> Idle]
  /\ mon = [m \in Mons |-> IF m = M1
                           THEN [Spawned(MaxSeqPasses) EXCEPT !.traced = TRUE]
                           ELSE NoMonitor]
  /\ \E n \in 0..MaxURLs :
       LB = [b \in BackendIds |-> IF b = 1 THEN Configured(n) ELSE <<>>]
  /\ disabledURLs = [b \in BackendIds |-> <<>>]
  /\ Interval = [b \in BackendIds |-> 1]
  /\ failBudget = MaxFails
  /\ failedOps = {}
  /\ overlapped = FALSE
  /\ known = [b \in BackendIds |-> LiveSet(b)]
  /\ singleton = 0
  /\ once = "fresh"
  /\ built = 0
  /\ getter = [g \in Getters |-> NoGetter]

PassNext == Monitor(M1) \/ CancelParent

PassSpec == PassInit /\ [][PassNext]_vars


\* The process before any GetHealthCheck call: singleton is nil and once is
\* unused (lines 16-17); no registry exists yet.
OnceInit ==
  /\ Backends = {}
  /\ cancel = 0
  /\ wg = 0
  /\ ctxDone = {}
  /\ parentDone = FALSE
  /\ nextGen = 0
  /\ calls = 0
  /\ caller = [c \in Callers |-> Idle]
  /\ mon = [m \in Mons |-> NoMonitor]
  /\ LB = [b \in BackendIds |-> <<>>]
  /\ disabledURLs = [b \in BackendIds |-> <<>>]
  /\ Interval = [b \in BackendIds |-> 1]
  /\ failBudget = 0
  /\ failedOps = {}
  /\ overlapped = FALSE
  /\ known = [b \in BackendIds |-> {}]
  /\ singleton = 0
  /\ once = "fresh"
  /\ built = 0
  /\ getter = [g \in Getters |-> NoGetter]

OnceNext == \E g \in Getters : GetHealthCheck(g)

OnceSpec == OnceInit /\ [][OnceNext]_vars

\* The goroutine that owns the registry: calls come from caller 1, one after
\* the other, as the configuration pushes of one provider loop do.
Owner == 1

FairNext ==
  \/ SetBackendsConfiguration(Owner)
  \/ \E m \in Mons : Monitor(m)
  \/ CancelParent

\* The Go scheduler runs every runnable goroutine eventually, checkHealth
\* returns within requestTimeout, and a select whose ctx.Done case is ready
\* every time it is reached takes that case eventually (the choice among
\* ready cases is random).
Fairness ==
  \A m \in Mons : WF_vars(Monitor(m)) /\ SF_vars(SelectDone(m))

FairSpec == Init /\ [][FairNext]_vars /\ Fairness

\* ------------------------------------------------------------- claims
\* C1-C4, C10-C12, C14-C16 and C20 are about checkBackend and the select of
\* one monitor and are checked under PassSpec; C5-C9 and C19 are about the
\* registry and are checked under Spec; C13 under OnceSpec; C17 and C18
\* under FairSpec.

\* A monitor that has completed a pass and is not inside the next one: the
\* log and the locals are those of its last pass.
AtRest(m) == mon[m].passes >= 1 /\ ~InPass(mon[m])

InLog(m, e) == \E k \in 1..Len(mon[m].log) : mon[m].log[k] = e

\* The probes of u in the monitor's last pass, by outcome.
Probed(m, u, healthy) ==
  InLog(m, Event("probe1", u, healthy)) \/ InLog(m, Event("probe2", u, healthy))

Weight(b, u) == {LB[b][k].weight : k \in {j \in 1..Len(LB[b]) : LB[b][j].url = u}}

\* C1 as claimed: after any completed pass no URL is both in the live list
\* and in the disabled set.
C1_NeverBothAfterPass ==
  AtRest(M1) => LiveSet(1) \cap DisabledSet(1) = {}

\* C2 as claimed: in every state, also in the middle of a pass, every known
\* URL is in exactly one of the live list and the disabled set.
C2_ExactlyOneAlways ==
  \A u \in known[1] : (u \in LiveSet(1)) # (u \in DisabledSet(1))

\* C3 as claimed: a server that was live when the pass started and whose
\* probe of the live-list check was unhealthy is, after the pass, absent from
\* the live list and present in the disabled set.
C3_UnhealthyIsDisabled ==
  AtRest(M1) =>
    \A u \in Range(mon[M1].enabledURLs) :
      InLog(M1, Event("probe2", u, FALSE)) =>
        (u \notin LiveSet(1) /\ u \in DisabledSet(1))

\* A URL that was disabled when the pass started and whose probes in the
\* pass were healthy.
HealthyDisabled(m, u) ==
  /\ u \in Range(mon[m].rangeURLs)
  /\ InLog(m, Event("probe1", u, TRUE))
  /\ ~Probed(m, u, FALSE)

\* C4 as claimed: a server that was disabled when the pass started and whose
\* probe in the pass was healthy is, after the pass, absent from the disabled
\* set and in the live list with weight 1.
C4_HealthyIsEnabled ==
  AtRest(M1) =>
    \A u \in URLs :
      HealthyDisabled(M1, u) => (u \notin DisabledSet(1) /\ Weight(1, u) = {1})

\* C10 as claimed: after an adapter call has failed in a pass, the next pass
\* in which no adapter call fails leaves every known URL, whatever its probe
\* says, in exactly one of the two places: live if its probe was healthy,
\* disabled if it was unhealthy. (A URL probed twice with different outcomes
\* has no single verdict and is left out.)
C10_SelfHeals ==
  (AtRest(M1) /\ mon[M1].prevFailed /\ ~mon[M1].failed) =>
    \A u \in known[1] :
      ~(Probed(M1, u, TRUE) /\ Probed(M1, u, FALSE)) =>
        /\ (u \in LiveSet(1)) # (u \in DisabledSet(1))
        /\ Probed(M1, u, TRUE) => u \in LiveSet(1)
        /\ Probed(M1, u, FALSE) => u \in DisabledSet(1)


\* A monitor handed to safe.Go, whatever it has done since.
Started(m) == mon[m].pc # "none"

\* No goroutine is inside SetBackendsConfiguration.
Quiescent == \A c \in Callers : ~Active(c)

\* C5: once a monitor has taken the ctx.Done branch it takes no further
\* step: no pass, no Servers/UpsertServer/RemoveServer call, no change of
\* the disabled set by it.
C5_NoPassAfterCancelObserved ==
  [][\A m \in Mons : mon[m].obs => mon'[m] = mon[m]]_vars

\* A monitor of a generation cancelled by a later SetBackendsConfiguration
\* has observed the cancellation while a monitor of the later generation is
\* inside a pass.
C5_Witness ==
  \E m, n \in Mons :
    /\ mon[m].obs
    /\ GenOf(m) \in ctxDone
    /\ mon[m].passes >= 1
    /\ GenOf(n) > GenOf(m)
    /\ InPass(mon[n])

\* C6 as claimed: whenever no call is in progress, the stored set, the
\* cancel function the registry holds and every generation not yet signalled
\* belong to one call, the last one.
C6_CallsAreSerializable ==
  (Quiescent /\ calls > 0) =>
    \E c \in Callers :
      /\ caller[c].ctx = cancel
      /\ caller[c].backends = Backends
      /\ \A m \in Mons : (Started(m) /\ ~Done(GenOf(m))) => GenOf(m) = cancel

\* The call that returned last, when no call is in progress and none has
\* overlapped another.
LastCall(c) ==
  /\ Quiescent
  /\ ~overlapped
  /\ caller[c].ctx # 0
  /\ caller[c].ctx = nextGen

\* A monitor: a goroutine of execute that has not ended, neither by the
\* return of the ctx.Done branch nor by a panic.
Running(m) == Started(m) /\ mon[m].pc \notin {"stopped", "panicked"}

\* C7 as claimed, while parentCtx is not cancelled (its cancellation
\* signals every generation): after a SetBackendsConfiguration(newSet) call
\* that has not overlapped another has returned, the monitors whose context
\* is not done are exactly one per entry of newSet, all of the call's
\* generation, and every earlier generation has been signalled; for an
\* empty newSet the call's generation has no monitor, so none that calls
\* Servers().
C7_OneMonitorPerEntry ==
  \A c \in Callers :
    (LastCall(c) /\ ~parentDone) =>
      /\ {m \in Mons : Running(m) /\ ~Done(GenOf(m))}
           = {caller[c].ctx} \X caller[c].backends
      /\ \A m \in Mons : (Started(m) /\ GenOf(m) < caller[c].ctx) => Done(GenOf(m))
      /\ caller[c].backends = {} =>
           \A m \in Mons : GenOf(m) = caller[c].ctx => mon[m] = NoMonitor

\* C8: a monitor that has not completed its initial pass has no ticker and
\* is not at the select: the first pass comes before the first wait, for
\* every interval.
C8_InitialPassBeforeWait ==
  \A m \in Mons :
    mon[m].passes = 0 => (~mon[m].ticker /\ ~mon[m].tick /\ mon[m].pc # "select")

\* A monitor waits at the select for the first time, its initial pass done.
C8_Witness ==
  \E m \in Mons :
    /\ mon[m].pc = "select"
    /\ mon[m].passes = 1
    /\ mon[m].ticker
    /\ Interval[BackendOf(m)] > 0

\* C9 as claimed: no monitor is ever started for a backend whose interval is
\* not positive.
C9_NonPositiveIntervalRejected ==
  \A m \in Mons : Interval[BackendOf(m)] <= 0 => ~Started(m)


\* The probe events of a pass log.
Probes(log) == {log[k] : k \in {j \in 1..Len(log) : log[j].op \in {"probe1", "probe2"}}}

\* The monitor's last two passes had unchanged probe outcomes: every URL
\* probed in them got one outcome in all its probes.
SameOutcomes(m) ==
  \A e, f \in Probes(mon[m].prevLog) \cup Probes(mon[m].log) :
    e.url = f.url => e.ok = f.ok

\* How often u is in the live list of b.
LiveCount(b, u) == Cardinality({k \in 1..Len(LB[b]) : LB[b][k].url = u})

\* The lists are as the monitor's last pass found them, and every server the
\* pass found live and healthy is in the live list once.
LeftAsFound(m) ==
  /\ LB[BackendOf(m)] = mon[m].startLB
  /\ disabledURLs[BackendOf(m)] = mon[m].startDisabled
  /\ \A u \in URLs :
       InLog(m, Event("probe2", u, TRUE)) => LiveCount(BackendOf(m), u) = 1

\* C11 as claimed: a pass whose probe outcomes are those of the pass before
\* leaves the live list and the disabled set exactly as that pass left them,
\* every live healthy server once in the live list.
C11_SecondPassIdempotent ==
  (AtRest(M1) /\ mon[M1].passes >= 2 /\ SameOutcomes(M1)) => LeftAsFound(M1)


\* The outcome of every probe of a pass log, by URL.
Outcomes(log) == {<<e.url, e.ok>> : e \in Probes(log)}

\* The load balancer has performed every call of a pass log.
Performed(log) ==
  \A k \in 1..Len(log) : log[k].op \in {"upsert", "remove"} => log[k].ok

\* The scenario for servers s1 and s2 of M1's backend, the only two it is
\* configured with, and a load balancer that performs the calls made. After
\* the first pass, in which s1 was healthy and s2 was not: s1 is live and
\* s2 is disabled. After the second pass, in which both were healthy: both
\* are live and none is disabled.
Scenario(s1, s2) ==
  /\ (/\ mon[M1].passes = 1
      /\ Outcomes(mon[M1].log) = {<<s1, TRUE>>, <<s2, FALSE>>}
      /\ Performed(mon[M1].log))
       => (LiveSet(1) = {s1} /\ DisabledSet(1) = {s2})
  /\ (/\ mon[M1].passes = 2
      /\ Outcomes(mon[M1].prevLog) = {<<s1, TRUE>>, <<s2, FALSE>>}
      /\ Outcomes(mon[M1].log) = {<<s1, TRUE>>, <<s2, TRUE>>}
      /\ Performed(mon[M1].prevLog) /\ Performed(mon[M1].log))
       => (LiveSet(1) = {s1, s2} /\ DisabledSet(1) = {})

\* C12: a backend with the live servers s1 and s2, s1 healthy and s2 not,
\* has after one pass the live list {s1} and the disabled set {s2}; when
\* s2 is healthy in the next pass, it has after that pass the live list
\* {s1, s2} and an empty disabled set.
C12_TwoPassScenario ==
  (AtRest(M1) /\ Cardinality(known[1]) = 2) =>
    \A s1, s2 \in known[1] : s1 # s2 => Scenario(s1, s2)

\* The end of the scenario: s2 was removed and disabled by the first pass
\* and has been upserted by the second; both servers are live.
C12_Witness ==
  /\ AtRest(M1)
  /\ mon[M1].passes = 2
  /\ \E s1, s2 \in known[1] :
       /\ s1 # s2
       /\ Outcomes(mon[M1].prevLog) = {<<s1, TRUE>>, <<s2, FALSE>>}
       /\ Outcomes(mon[M1].log) = {<<s1, TRUE>>, <<s2, TRUE>>}
       /\ Event("remove", s2, TRUE) \in Range(mon[M1].prevLog)
       /\ InLog(M1, Event("upsert", s2, TRUE))
       /\ LiveSet(1) = {s1, s2}
       /\ DisabledSet(1) = {}


\* C13: newHealthCheck runs at most once, whatever the number of concurrent
\* callers; every value GetHealthCheck has returned is that one constructed
\* instance, never nil, and so is singleton once the Once is done.
C13_ConstructedOnce ==
  /\ built <= 1
  /\ once = "done" => (built = 1 /\ singleton = 1)
  /\ \A g \in Getters : getter[g].n > 0 => (getter[g].got = 1 /\ built = 1)

\* Two goroutines whose calls began while another goroutine was inside
\* GetHealthCheck have both returned, with the same instance.
C13_Witness ==
  \E g, h \in Getters :
    /\ g # h
    /\ getter[g].raced /\ getter[g].n > 0 /\ getter[g].pc = "idle"
    /\ getter[h].raced /\ getter[h].n > 0 /\ getter[h].pc = "idle"
    /\ getter[g].got = getter[h].got
    /\ getter[g].got = singleton
    /\ singleton # 0


\* C14 as claimed: a monitor that is at the select with its context done and
\* a tick in the ticker's channel takes the ctx.Done branch: its next step
\* stops it and does not start a pass.
C14_CancellationWins ==
  [][\A m \in Mons :
       (mon[m].pc = "select" /\ mon[m].tick /\ Done(GenOf(m)) /\ mon'[m] # mon[m])
         => mon'[m].pc = "stopped"]_vars


\* How often the monitor's current or last pass has probed u.
ProbeCount(m, u) ==
  Cardinality({k \in 1..Len(mon[m].log) :
                 mon[m].log[k].op \in {"probe1", "probe2"} /\ mon[m].log[k].url = u})

\* C15 as claimed: within one pass every URL is probed at most once, in the
\* disabled-list loop or in the live-list loop.
C15_ProbedAtMostOnce ==
  \A u \in URLs : ProbeCount(M1, u) <= 1

\* C16 as claimed: whatever the probes and the adapter calls return, no URL
\* is in a backend's disabled list more than once.
C16_NoDuplicateDisabled ==
  \A b \in BackendIds :
    \A i, j \in 1..Len(disabledURLs[b]) :
      disabledURLs[b][i] = disabledURLs[b][j] => i = j


\* C17 as claimed: every monitor of a generation whose context is done (its
\* cancel function was called by a later SetBackendsConfiguration, or
\* parentCtx was cancelled) eventually is in the terminal state Stopped: it
\* has returned from the ctx.Done branch of the select.
C17_CancelledMonitorsStop ==
  \A m \in Mons : (Started(m) /\ Done(GenOf(m))) ~> (mon[m].pc = "stopped")


\* C18 as claimed: no two monitors are inside checkBackend for the same
\* backend at the same time.
C18_PassesSequentialPerBackend ==
  \A m, n \in Mons :
    (m # n /\ BackendOf(m) = BackendOf(n)) => ~(InPass(mon[m]) /\ InPass(mon[n]))


\* The monitor's goroutine has ended and holds no ticker: it has returned
\* from the ctx.Done branch, or it has panicked and unwound, the deferred
\* ticker.Stop and hc.wg.Done running.
Exited(m) == mon[m].pc \in {"stopped", "panicked"} /\ ~mon[m].ticker

\* hc.wg.Wait() returns when the counter of the wait group is zero.
WaitCompletes == wg = 0

\* C19 as claimed: while a monitor that a returned SetBackendsConfiguration
\* call has started (execute has handed it to safe.Go) has not ended, a
\* Wait does not complete.
C19_WaitCoversStartedMonitors ==
  (\E m \in Mons : Started(m) /\ ~Exited(m)) => ~WaitCompletes


\* The entries of u in a live list, and how often u is in a URL list.
LiveEntries(s, u) == {s[k] : k \in {j \in 1..Len(s) : s[j].url = u}}
Count(s, u) == Cardinality({k \in 1..Len(s) : s[k] = u})

\* Every adapter call in the monitor's log follows a probe of the same URL in
\* the same pass: RemoveServer an unhealthy probe of the live-list loop,
\* UpsertServer a healthy probe of the disabled-list loop.
CallsFollowProbes(m) ==
  \A k \in 1..Len(mon[m].log) :
    LET e == mon[m].log[k] IN
      /\ e.op = "remove" => (k > 1 /\ mon[m].log[k - 1] = Event("probe2", e.url, FALSE))
      /\ e.op = "upsert" => (k > 1 /\ mon[m].log[k - 1] = Event("probe1", e.url, TRUE))

\* After the pass, a server the live-list loop found healthy is in the live
\* list as it was when the pass started, with the weight it had, and is on
\* the disabled list no more often than it was then.
HealthyLiveUntouched(m) ==
  \A u \in URLs :
    InLog(m, Event("probe2", u, TRUE)) =>
      /\ LiveEntries(LB[BackendOf(m)], u) # {}
      /\ LiveEntries(LB[BackendOf(m)], u) = LiveEntries(mon[m].startLB, u)
      /\ Count(disabledURLs[BackendOf(m)], u) <= Count(mon[m].startDisabled, u)

\* C20 as claimed: a pass calls RemoveServer only for a URL whose probe in
\* that pass was unhealthy and UpsertServer only for one whose probe was
\* healthy; a live server whose probe was healthy is left untouched in the
\* live list and is not added to the disabled list.
C20_OnlyProbedVerdictsActedOn ==
  /\ CallsFollowProbes(M1)
  /\ AtRest(M1) => HealthyLiveUntouched(M1)

====
